---- MODULE Spec2Model ----
(***************************************************************************)
(* Model of app.py: a Streamlit script that loads a reference dataset and  *)
(* three pickled artifacts, renders seven input widgets and, when the      *)
(* "Predict Product Category" button is clicked, encodes the inputs,       *)
(* reindexes them to the expected feature order and calls the predictor.   *)
(*                                                                         *)
(* The script is executed top to bottom on every user interaction; `pc`    *)
(* is the position of the current execution.  The files on disk are the    *)
(* environment: they are drawn in Init and stay fixed.                      *)
(***************************************************************************)
EXTENDS Integers, Sequences, FiniteSets, TLC

\* ------------------------------------------------------------------ bounds
MaxRows == 2        \* rows of the reference dataset
MaxFeatures == 2    \* length of the enumerated feature order lists
MaxLabel == 2       \* the predictor answers a label in 0..MaxLabel
MaxRuns == 3        \* script executions in one process

\* --------------------------------------------------------------- constants
model_path == "gradient_boosting_model.pkl"
features_path == "gradient_boosting_features.pkl"
label_encoder_target_path == "product_category_label_encoder.pkl"
data_path == "data.csv"

Paths == {data_path, model_path, features_path, label_encoder_target_path}

categorical_features == <<"store_location", "Gender", "Season", "Size">>

CategoricalSet == {categorical_features[i] : i \in 1..Len(categorical_features)}

\* the keys of input_data, in the order the dictionary is written
InputFields ==
    <<"store_location", "Gender", "Season", "Size", "Age", "Total_Bill", "transaction_qty">>

\* a missing cell of the dataset (pandas NaN); also what a selectbox without
\* options returns (None), which pandas stores as a missing value
NaN == 0

\* cell values; their integer order stands for the order Python gives them
Values == {1, 2}

Cells == Values \cup {NaN}

\* st.number_input: Age 0..120 (default 30), Total Bill >= 0.0 (default 100.0),
\* Transaction Quantity >= 1 (default 1)
AgeValues == {30, 120}
BillValues == {100}
QtyValues == {1}

\* a Python name that is not bound / that is bound to v
Unbound == [bound |-> FALSE]
Bound(v) == [bound |-> TRUE, val |-> v]

\* Python's None, as the value of label_encoder_y
None == [none |-> TRUE]

\* --------------------------------------------------------- the file system
SeqsUpTo(S, n) == UNION {[1..k -> S] : k \in 0..n}

ColumnContents == SeqsUpTo(Cells, MaxRows)

\* tables with the four required columns, all holding the same cells
UniformTables == {[c \in CategoricalSet |-> s] : s \in ColumnContents}

\* tables that lack some of the required columns
PartialTables == {[c \in cs |-> <<1>>] : cs \in (SUBSET CategoricalSet) \ {CategoricalSet}}

\* tables whose columns differ: one column without any value, one unsorted
MixedTables ==
    {[c \in CategoricalSet |-> IF c = blank THEN <<NaN>> ELSE <<2, 1>>] :
        blank \in CategoricalSet}
    \cup {[c \in CategoricalSet |->
            CASE c = "store_location" -> <<3, 1, 2>>
              [] c = "Gender" -> <<2, 2>>
              [] c = "Season" -> <<NaN, 1>>
              [] OTHER -> <<1, 3>>]}

Tables == UniformTables \cup PartialTables \cup MixedTables

FileMissing == [state |-> "missing"]
FileMalformed == [state |-> "malformed"]
FileOk(x) == [state |-> "ok", content |-> x]

DataFiles == {FileMissing, FileMalformed} \cup {FileOk(t) : t \in Tables}

\* the predictor is a black box: the file holds it or does not
ModelFiles == {FileMissing, FileMalformed, FileOk("predictor")}

\* an input field and a name that is no input field
FeatureNames == {"Gender", "Discount"}

TrainedOrder ==
    <<"Age", "Gender", "Season", "Size", "store_location", "Total_Bill", "transaction_qty">>

FeatureLists == SeqsUpTo(FeatureNames, MaxFeatures) \cup {TrainedOrder}

FeatureFiles == {FileMissing, FileMalformed} \cup {FileOk(f) : f \in FeatureLists}

\* a fitted LabelEncoder
Encoder(classes) == [classes_ |-> classes]

\* the pickled target LabelEncoder
Decoders == {Encoder(<<"Bakery">>), Encoder(<<"Bakery", "Coffee">>)}

DecoderFiles == {FileMissing, FileMalformed} \cup {FileOk(d) : d \in Decoders}

VARIABLES
    files,               \* path -> what is on disk
    pc,                  \* position of the current script execution
    runs,                \* script executions started so far
    reads,               \* path -> number of times the file was opened
    button,              \* st.button's value in this execution
    shown,               \* what this execution has put on the page
    original_df,
    unique_values,       \* unique_store_locations, unique_genders, ...
    model,
    expected_features,
    label_encoder_y,
    widgets,             \* store_location, gender, season, size, age, ...
    input_df,
    le,                  \* the LabelEncoder fitted last
    input_df_processed,
    predicted_label

vars ==
    <<files, pc, runs, reads, button, shown, original_df, unique_values, model,
      expected_features, label_encoder_y, widgets, input_df, le,
      input_df_processed, predicted_label>>


\* ------------------------------------------------------- library functions
\* Series.dropna(): the cells that are not missing, in order
DropNa(s) == SelectSeq(s, LAMBDA x : x # NaN)

\* Series.unique().tolist(): the distinct cells in order of first appearance
RECURSIVE Unique(_)
Unique(s) ==
    IF s = <<>> THEN <<>>
    ELSE LET init == Unique(SubSeq(s, 1, Len(s) - 1))
             last == s[Len(s)]
         IN  IF \E i \in 1..Len(init) : init[i] = last THEN init
             ELSE Append(init, last)

\* insert x into the ascending list s, after the elements that are <= x
RECURSIVE Insert(_, _)
Insert(s, x) ==
    IF s = <<>> THEN <<x>>
    ELSE IF x < Head(s) THEN <<x>> \o s
    ELSE <<Head(s)>> \o Insert(Tail(s), x)

\* Python's sorted(list): ascending, keeps duplicates
RECURSIVE Sorted(_)
Sorted(s) ==
    IF s = <<>> THEN <<>>
    ELSE Insert(Sorted(SubSeq(s, 1, Len(s) - 1)), s[Len(s)])

\* the options of one selector: sorted(df[col].dropna().unique().tolist())
SelectorDomain(column) == Sorted(Unique(DropNa(column)))

\* numpy.unique over a set of cells: ascending, smallest first
RECURSIVE Ascending(_)
Ascending(S) ==
    IF S = {} THEN <<>>
    ELSE LET m == CHOOSE x \in S : \A y \in S : x <= y
         IN  <<m>> \o Ascending(S \ {m})

\* Fit without the sort: classes_ in order of first appearance
MutFit(y) == Encoder(y)

\* LabelEncoder().fit(y): classes_ = numpy.unique(y)
Fit(y) == Encoder(Ascending({y[i] : i \in 1..Len(y)}))

\* LabelEncoder.transform([v]) raises ValueError on a label not in classes_
TransformRaises(enc, v) == \A i \in 1..Len(enc.classes_) : enc.classes_[i] # v

\* LabelEncoder.transform([v])[0]: the 0-based index of v in classes_
Transform(enc, v) == (CHOOSE i \in 1..Len(enc.classes_) : enc.classes_[i] = v) - 1

\* LabelEncoder.inverse_transform([label]) raises on a label outside classes_
InverseRaises(enc, label) == label \notin 0..(Len(enc.classes_) - 1)

\* InverseTransform that ignores the label
MutInverseTransform(enc, label) == enc.classes_[1]

\* LabelEncoder.inverse_transform([label])[0]
InverseTransform(enc, label) == enc.classes_[label + 1]

\* `if label_encoder_y:` -- None is falsy, a LabelEncoder object is truthy
Truthy(x) == "classes_" \in DOMAIN x

\* f"{int(predicted_label)}"
FormatInt(n) == ToString(n)

\* one-row DataFrame: a sequence of columns [name, value], in column order
Has(df, name) == \E i \in 1..Len(df) : df[i].name = name

Get(df, name) == df[CHOOSE i \in 1..Len(df) : df[i].name = name].value

\* input_df[col] = v
SetCol(df, name, v) ==
    [i \in 1..Len(df) |->
        IF df[i].name = name THEN [name |-> name, value |-> v] ELSE df[i]]

\* Reindex as a column filter: the frame's own order, nothing filled in
MutReindex(df, columns, fill_value) ==
    SelectSeq(df, LAMBDA col : \E i \in 1..Len(columns) : columns[i] = col.name)

\* DataFrame.reindex(columns=columns, fill_value=fill_value)
Reindex(df, columns, fill_value) ==
    [i \in 1..Len(columns) |->
        [name |-> columns[i],
         value |-> IF Has(df, columns[i]) THEN Get(df, columns[i])
                   ELSE fill_value]]

\* pd.DataFrame([input_data]) for the widget values w
InputData(w) == [i \in 1..Len(InputFields) |-> [name |-> InputFields[i], value |-> w[InputFields[i]]]]

\* the for loop over categorical_features from column i on: the frame and the
\* encoder it leaves, and whether le.transform raised
RECURSIVE EncodeLoop(_, _, _, _)
EncodeLoop(df, enc, table, i) ==
    IF i > Len(categorical_features)
    THEN [raised |-> FALSE, df |-> df, le |-> enc]
    ELSE LET col == categorical_features[i]
         IN  IF ~Has(df, col) THEN EncodeLoop(df, enc, table, i + 1)
             ELSE LET fitted == Fit(Unique(DropNa(table[col])))
                  IN  IF TransformRaises(fitted, Get(df, col))
                      THEN [raised |-> TRUE, df |-> df, le |-> Bound(fitted)]
                      ELSE EncodeLoop(
                               SetCol(df, col, Transform(fitted, Get(df, col))),
                               Bound(fitted), table, i + 1)

\* st.selectbox(label, options): an option, or None when there are none
SelectboxValues(options) ==
    IF options = <<>> THEN {NaN} ELSE {options[i] : i \in 1..Len(options)}

\* the first required column the table lacks (the KeyError's key)
MissingColumns(table) ==
    {i \in 1..Len(categorical_features) : categorical_features[i] \notin DOMAIN table}

FirstMissingColumn(table) ==
    categorical_features[CHOOSE i \in MissingColumns(table) :
                            \A j \in MissingColumns(table) : i <= j]

\* ------------------------------------------------------------ page output
Msg(kind, text, arg) == [kind |-> kind, text |-> text, arg |-> arg]

Show(m) == shown' = Append(shown, m)

\* st.stop() left out: the script goes on to the page layout
MutStop == pc' = "layout"

\* st.stop(): the execution ends here
Stop == pc' = "stopped"

\* Read behind a process-wide cache: only the first call opens the file
MutRead(path) == reads' = [reads EXCEPT ![path] = IF @ = 0 THEN 1 ELSE @]

Read(path) == reads' = [reads EXCEPT ![path] = @ + 1]

\* ------------------------------------------------------------------- Init

Init ==
    /\ \E d \in DataFiles, m \in ModelFiles, f \in FeatureFiles, y \in DecoderFiles :
            files = (data_path :> d) @@ (model_path :> m) @@ (features_path :> f)
                    @@ (label_encoder_target_path :> y)
    /\ runs = 1
    /\ reads = [p \in Paths |-> 0]
    /\ button = FALSE
    /\ pc = "load_data"
    /\ shown = <<>>
    /\ original_df = Unbound
    /\ unique_values = Unbound
    /\ model = Unbound
    /\ expected_features = Unbound
    /\ label_encoder_y = Unbound
    /\ widgets = Unbound
    /\ input_df = Unbound
    /\ le = Unbound
    /\ input_df_processed = Unbound
    /\ predicted_label = Unbound


\* ---------------------------------------------------------------- actions
\* lines 24-38: read data.csv and derive the four selector domains
LoadData ==
    /\ pc = "load_data"
    /\ Read(data_path)
    /\ LET f == files[data_path]
       IN  CASE f.state = "missing" ->
                  /\ Show(Msg("error", "Data file not found", data_path))
                  /\ Stop
                  /\ UNCHANGED <<original_df, unique_values>>
             [] f.state = "malformed" ->
                  /\ Show(Msg("error", "Error loading data", "e"))
                  /\ Stop
                  /\ UNCHANGED <<original_df, unique_values>>
             [] OTHER ->
                  /\ original_df' = Bound(f.content)
                  /\ IF MissingColumns(f.content) # {}
                     THEN /\ Show(Msg("error", "Missing column in data file",
                                      FirstMissingColumn(f.content)))
                          /\ Stop
                          /\ UNCHANGED unique_values
                     ELSE /\ unique_values' =
                               Bound([c \in CategoricalSet |-> SelectorDomain(f.content[c])])
                          /\ pc' = "load_model"
                          /\ UNCHANGED shown
    /\ UNCHANGED <<files, runs, button, model, expected_features, label_encoder_y,
                   widgets, input_df, le, input_df_processed, predicted_label>>

\* LoadModel without the st.stop() of line 43
MutLoadModel ==
    /\ pc = "load_model"
    /\ LET f == files[model_path]
       IN  CASE f.state = "missing" ->
                  /\ Show(Msg("error", "Model file not found", model_path))
                  /\ pc' = "load_features"
                  /\ UNCHANGED <<model, reads>>
             [] f.state = "malformed" ->
                  /\ Read(model_path)
                  /\ Show(Msg("error", "Error loading model file", "e"))
                  /\ Stop
                  /\ UNCHANGED model
             [] OTHER ->
                  /\ Read(model_path)
                  /\ model' = Bound(f.content)
                  /\ pc' = "load_features"
                  /\ UNCHANGED shown
    /\ UNCHANGED <<files, runs, button, original_df, unique_values, expected_features,
                   label_encoder_y, widgets, input_df, le, input_df_processed,
                   predicted_label>>

\* lines 41-48: the predictor
LoadModel ==
    /\ pc = "load_model"
    /\ LET f == files[model_path]
       IN  CASE f.state = "missing" ->
                  /\ Show(Msg("error", "Model file not found", model_path))
                  /\ Stop
                  /\ UNCHANGED <<model, reads>>
             [] f.state = "malformed" ->
                  /\ Read(model_path)
                  /\ Show(Msg("error", "Error loading model file", "e"))
                  /\ Stop
                  /\ UNCHANGED model
             [] OTHER ->
                  /\ Read(model_path)
                  /\ model' = Bound(f.content)
                  /\ pc' = "load_features"
                  /\ UNCHANGED shown
    /\ UNCHANGED <<files, runs, button, original_df, unique_values, expected_features,
                   label_encoder_y, widgets, input_df, le, input_df_processed,
                   predicted_label>>

\* lines 50-57: the feature order list
LoadFeatures ==
    /\ pc = "load_features"
    /\ LET f == files[features_path]
       IN  CASE f.state = "missing" ->
                  /\ Show(Msg("error", "Feature columns file not found", features_path))
                  /\ Stop
                  /\ UNCHANGED <<expected_features, reads>>
             [] f.state = "malformed" ->
                  /\ Read(features_path)
                  /\ Show(Msg("error", "Error loading feature columns", "e"))
                  /\ Stop
                  /\ UNCHANGED expected_features
             [] OTHER ->
                  /\ Read(features_path)
                  /\ expected_features' = Bound(f.content)
                  /\ pc' = "load_decoder"
                  /\ UNCHANGED shown
    /\ UNCHANGED <<files, runs, button, original_df, unique_values, model,
                   label_encoder_y, widgets, input_df, le, input_df_processed,
                   predicted_label>>

\* LoadDecoder that treats an undeserializable decoder as fatal
MutLoadDecoder ==
    /\ pc = "load_decoder"
    /\ LET f == files[label_encoder_target_path]
       IN  CASE f.state = "missing" ->
                  /\ Show(Msg("warning", "Target LabelEncoder file not found",
                              label_encoder_target_path))
                  /\ label_encoder_y' = Bound(None)
                  /\ pc' = "layout"
                  /\ UNCHANGED reads
             [] f.state = "malformed" ->
                  /\ Read(label_encoder_target_path)
                  /\ Show(Msg("error", "Error loading Target LabelEncoder", "e"))
                  /\ label_encoder_y' = Bound(None)
                  /\ Stop
             [] OTHER ->
                  /\ Read(label_encoder_target_path)
                  /\ label_encoder_y' = Bound(f.content)
                  /\ pc' = "layout"
                  /\ UNCHANGED shown
    /\ UNCHANGED <<files, runs, button, original_df, unique_values, model,
                   expected_features, widgets, input_df, le, input_df_processed,
                   predicted_label>>

\* lines 59-67: the optional target decoder
LoadDecoder ==
    /\ pc = "load_decoder"
    /\ LET f == files[label_encoder_target_path]
       IN  CASE f.state = "missing" ->
                  /\ Show(Msg("warning", "Target LabelEncoder file not found",
                              label_encoder_target_path))
                  /\ label_encoder_y' = Bound(None)
                  /\ UNCHANGED reads
             [] f.state = "malformed" ->
                  /\ Read(label_encoder_target_path)
                  /\ Show(Msg("error", "Error loading Target LabelEncoder", "e"))
                  /\ label_encoder_y' = Bound(None)
             [] OTHER ->
                  /\ Read(label_encoder_target_path)
                  /\ label_encoder_y' = Bound(f.content)
                  /\ UNCHANGED shown
    /\ pc' = "layout"
    /\ UNCHANGED <<files, runs, button, original_df, unique_values, model,
                   expected_features, widgets, input_df, le, input_df_processed,
                   predicted_label>>

\* lines 70-85: title, the four selectors and the three numeric inputs; each
\* widget returns what the user has set it to
Layout ==
    /\ pc = "layout"
    /\ \E sl \in SelectboxValues(unique_values.val["store_location"]),
          g \in SelectboxValues(unique_values.val["Gender"]),
          se \in SelectboxValues(unique_values.val["Season"]),
          sz \in SelectboxValues(unique_values.val["Size"]),
          a \in AgeValues, tb \in BillValues, q \in QtyValues :
            widgets' = Bound([store_location |-> sl, Gender |-> g, Season |-> se,
                              Size |-> sz, Age |-> a, Total_Bill |-> tb,
                              transaction_qty |-> q])
    /\ pc' = IF button THEN "assemble" ELSE "instructions"
    /\ UNCHANGED <<files, runs, reads, button, shown, original_df, unique_values,
                   model, expected_features, label_encoder_y, input_df, le,
                   input_df_processed, predicted_label>>

\* lines 88-99: the button was clicked; input_data and input_df
Assemble ==
    /\ pc = "assemble"
    /\ input_df' = Bound(InputData(widgets.val))
    /\ pc' = "encode"
    /\ UNCHANGED <<files, runs, reads, button, shown, original_df, unique_values,
                   model, expected_features, label_encoder_y, widgets, le,
                   input_df_processed, predicted_label>>

\* lines 102-108: the label encoding loop; it is outside the try block, so an
\* exception of le.transform ends the execution with Streamlit's exception box
Encode ==
    /\ pc = "encode"
    /\ LET r == EncodeLoop(input_df.val, le, original_df.val, 1)
       IN  /\ input_df' = Bound(r.df)
           /\ le' = r.le
           /\ IF r.raised
              THEN /\ Show(Msg("exception", "ValueError", "e"))
                   /\ pc' = "idle"
              ELSE /\ pc' = "reindex"
                   /\ UNCHANGED shown
    /\ UNCHANGED <<files, runs, reads, button, original_df, unique_values, model,
                   expected_features, label_encoder_y, widgets, input_df_processed,
                   predicted_label>>

\* line 111
ReindexStep ==
    /\ pc = "reindex"
    /\ input_df_processed' = Bound(Reindex(input_df.val, expected_features.val, 0))
    /\ pc' = "predict"
    /\ UNCHANGED <<files, runs, reads, button, shown, original_df, unique_values,
                   model, expected_features, label_encoder_y, widgets, input_df, le,
                   predicted_label>>

\* lines 114-123, model.predict raises
PredictRaises ==
    /\ pc = "predict"
    /\ shown' = shown \o <<Msg("error", "Error during prediction", "e"),
                           Msg("write", "Ensure input values are valid", "")>>
    /\ pc' = "instructions"
    /\ UNCHANGED <<files, runs, reads, button, original_df, unique_values, model,
                   expected_features, label_encoder_y, widgets, input_df, le,
                   input_df_processed, predicted_label>>

\* lines 114-123, model.predict answers `label`
PredictReturns(label) ==
    /\ pc = "predict"
    /\ predicted_label' = Bound(label)
    /\ IF Truthy(label_encoder_y.val)
       THEN IF InverseRaises(label_encoder_y.val, label)
            THEN shown' = shown \o <<Msg("error", "Error during prediction", "e"),
                                     Msg("write", "Ensure input values are valid", "")>>
            ELSE Show(Msg("success", "Predicted Product Category",
                          InverseTransform(label_encoder_y.val, label)))
       ELSE Show(Msg("success", "Predicted Product Category (Numerical Label)",
                     FormatInt(label)))
    /\ pc' = "instructions"
    /\ UNCHANGED <<files, runs, reads, button, original_df, unique_values, model,
                   expected_features, label_encoder_y, widgets, input_df, le,
                   input_df_processed>>

Predict == PredictRaises \/ \E label \in 0..MaxLabel : PredictReturns(label)

\* lines 126-133: the instructions at the foot of the page; the execution ends
Instructions ==
    /\ pc = "instructions"
    /\ Show(Msg("markdown", "How to Run This App", ""))
    /\ pc' = "idle"
    /\ UNCHANGED <<files, runs, reads, button, original_df, unique_values, model,
                   expected_features, label_encoder_y, widgets, input_df, le,
                   input_df_processed, predicted_label>>

\* a new execution of the script: every name of the previous one is gone
Rerun(clicked) ==
    /\ runs < MaxRuns
    /\ runs' = runs + 1
    /\ button' = clicked
    /\ pc' = "load_data"
    /\ shown' = <<>>
    /\ original_df' = Unbound
    /\ unique_values' = Unbound
    /\ model' = Unbound
    /\ expected_features' = Unbound
    /\ label_encoder_y' = Unbound
    /\ widgets' = Unbound
    /\ input_df' = Unbound
    /\ le' = Unbound
    /\ input_df_processed' = Unbound
    /\ predicted_label' = Unbound
    /\ UNCHANGED <<files, reads>>

\* the user clicks "Predict Product Category" on a page that shows it
ClickPredict ==
    /\ pc = "idle"
    /\ Rerun(TRUE)

\* the user changes a widget, or reloads the page (also after st.stop())
Interact ==
    /\ pc \in {"idle", "stopped"}
    /\ Rerun(FALSE)

Next ==
    \/ LoadData
    \/ LoadModel
    \/ LoadFeatures
    \/ LoadDecoder
    \/ Layout
    \/ Assemble
    \/ Encode
    \/ ReindexStep
    \/ Predict
    \/ Instructions
    \/ ClickPredict
    \/ Interact

Spec == Init /\ [][Next]_vars


\* ------------------------------------------------- vocabulary of the claims
IsOk(path) == files[path].state = "ok"

\* the values of `column` of the reference dataset that are not missing
ObservedValues(column) ==
    {files[data_path].content[column][i] :
        i \in 1..Len(files[data_path].content[column])} \ {NaN}

\* the reference dataset cannot be used: no file, unreadable, or a column short
DataDefect ==
    \/ ~IsOk(data_path)
    \/ \E c \in CategoricalSet : c \notin DOMAIN files[data_path].content

FatalDefect == DataDefect \/ ~IsOk(model_path) \/ ~IsOk(features_path)

Kinds(k) == {i \in 1..Len(shown) : shown[i].kind = k}

Texts(t) == {i \in 1..Len(shown) : shown[i].text = t}

\* the execution has run the whole encoding loop without an exception
Encoded == le.bound /\ pc # "encode" /\ Kinds("exception") = {}

\* C2: with an unusable reference dataset, predictor file or feature order
\* file, the execution reports one error that names the missing file or a
\* missing column and halts before any widget is rendered or record built.
C2_FailFast ==
    FatalDefect =>
        /\ pc \in {"load_data", "load_model", "load_features", "stopped"}
        /\ ~widgets.bound /\ ~input_df.bound /\ ~predicted_label.bound
        /\ Kinds("success") = {}
        /\ pc = "stopped" =>
            /\ Len(shown) = 1
            /\ shown[1].kind = "error"
            /\ files[data_path].state = "missing" => shown[1].arg = data_path
            /\ (IsOk(data_path) /\ DataDefect) =>
                  /\ shown[1].arg \in CategoricalSet
                  /\ shown[1].arg \notin DOMAIN files[data_path].content
            /\ (~DataDefect /\ files[model_path].state = "missing") =>
                  shown[1].arg = model_path
            /\ (~DataDefect /\ IsOk(model_path)
                  /\ files[features_path].state = "missing") =>
                  shown[1].arg = features_path

C2_Witness ==
    /\ pc = "stopped"
    /\ ~DataDefect /\ IsOk(model_path)
    /\ files[features_path].state = "missing"
    /\ shown = <<Msg("error", "Feature columns file not found", features_path)>>

\* C3 as written: a missing or undeserializable target decoder is surfaced as
\* a warning, never as an error, and the execution goes on.
C3_WarningNeverError ==
    (label_encoder_y.bound /\ ~IsOk(label_encoder_target_path)) =>
        /\ pc # "stopped"
        /\ Kinds("warning") # {}
        /\ Texts("Error loading Target LabelEncoder") = {}

\* C3 amended: a missing decoder file is surfaced as a warning, a decoder file
\* that fails to deserialize as an error; in both cases label_encoder_y is
\* None and the execution goes on.
C3_WarningOrError ==
    (label_encoder_y.bound /\ ~IsOk(label_encoder_target_path)) =>
        /\ pc # "stopped"
        /\ label_encoder_y.val = None
        /\ IF files[label_encoder_target_path].state = "missing"
           THEN /\ shown[1] = Msg("warning", "Target LabelEncoder file not found",
                                  label_encoder_target_path)
                /\ Texts("Error loading Target LabelEncoder") = {}
           ELSE /\ shown[1] = Msg("error", "Error loading Target LabelEncoder", "e")
                /\ Kinds("warning") = {}

C3_Witness ==
    /\ files[label_encoder_target_path].state = "malformed"
    /\ pc = "idle"
    /\ shown[1].kind = "error"
    /\ Kinds("success") # {}

\* decimal digits of a small natural number
Digits == <<"0", "1", "2", "3", "4", "5", "6", "7", "8", "9">>

\* C4: a success message shows the decoder's class name for the predicted
\* label exactly when the decoder file was loaded, and otherwise the
\* predicted integer itself.
C4_Decoding ==
    \A i \in Kinds("success") :
        /\ predicted_label.bound
        /\ IF IsOk(label_encoder_target_path)
           THEN shown[i] =
                  Msg("success", "Predicted Product Category",
                      files[label_encoder_target_path].content.classes_[
                          predicted_label.val + 1])
           ELSE shown[i] =
                  Msg("success", "Predicted Product Category (Numerical Label)",
                      Digits[predicted_label.val + 1])

C4_Witness ==
    /\ Kinds("success") # {}
    /\ IsOk(label_encoder_target_path)
    /\ predicted_label.val = 1
    /\ shown[Len(shown)].kind = "markdown"


InputFieldSet == {InputFields[i] : i \in 1..Len(InputFields)}

\* 0-based rank of v among the observed values of `column`
Rank(column, v) == Cardinality({x \in ObservedValues(column) : x < v})

\* what the predictor must receive under column `name`
ExpectedCell(name) ==
    IF name \notin InputFieldSet THEN 0
    ELSE IF name \in CategoricalSet THEN Rank(name, widgets.val[name])
    ELSE widgets.val[name]

Reverse(s) == [i \in 1..Len(s) |-> s[Len(s) + 1 - i]]

\* C5: the record handed to the predictor has the feature order list's
\* columns in the list's order; a listed name that is no input field holds 0,
\* a listed input field holds its encoded or numeric value, unlisted fields
\* are gone, and the order of the input fields does not matter.
C5_Reindexed ==
    input_df_processed.bound =>
        /\ Len(input_df_processed.val) = Len(files[features_path].content)
        /\ \A i \in 1..Len(input_df_processed.val) :
              /\ input_df_processed.val[i].name = files[features_path].content[i]
              /\ input_df_processed.val[i].value =
                    ExpectedCell(files[features_path].content[i])
        /\ Reindex(Reverse(input_df.val), expected_features.val, 0)
              = input_df_processed.val

C5_Witness ==
    /\ input_df_processed.bound
    /\ expected_features.val = <<"Discount", "Gender">>
    /\ input_df_processed.val =
          <<[name |-> "Discount", value |-> 0], [name |-> "Gender", value |-> 1]>>

\* C6: after the encoding loop each categorical column holds the 0-based rank
\* of the submitted value among the column's distinct non-missing reference
\* values in ascending order, which is also the value's position in the
\* selector's option list.
C6_RankEncoding ==
    Encoded =>
        \A c \in CategoricalSet :
            /\ Get(input_df.val, c) = Rank(c, widgets.val[c])
            /\ Get(input_df.val, c) + 1 \in DOMAIN unique_values.val[c]
            /\ unique_values.val[c][Get(input_df.val, c) + 1] = widgets.val[c]

C6_Witness ==
    /\ Encoded
    /\ original_df.val["store_location"] = <<3, 1, 2>>
    /\ widgets.val["store_location"] = 3
    /\ Get(input_df.val, "store_location") = 2
    /\ original_df.val["Size"] = <<1, 3>>
    /\ widgets.val["Size"] = 1

\* C7 as written: every categorical value of a submitted record is one of the
\* non-missing values of its column in the reference dataset, also when a
\* required column has no non-missing value.
C7_SubmittedValuesObserved ==
    input_df.bound =>
        \A c \in CategoricalSet : widgets.val[c] \in ObservedValues(c)

\* C1 as written: no failure of the encoding, assembly, reindexing, prediction
\* or decoding escapes the button handler; each is reported with
\* "Error during prediction" and the hint.
C1_NoFailureEscapes ==
    /\ Kinds("exception") = {}
    /\ (button /\ pc = "idle") =>
          \/ Kinds("success") # {}
          \/ Texts("Error during prediction") # {}

\* C9 as written: an execution that handled a click ends with exactly one
\* outcome, a success or a handled error, and the next execution starts with
\* nothing of it.
C9_OneOutcomePerRequest ==
    /\ (button /\ pc \in {"idle", "instructions"}) =>
          Cardinality(Kinds("success") \cup Texts("Error during prediction")) = 1
    /\ pc = "load_data" =>
          /\ ~input_df.bound /\ ~le.bound /\ ~input_df_processed.bound
          /\ ~predicted_label.bound /\ ~widgets.bound
          /\ shown = <<>>

\* executions that have gone past the statement that reads the file
PastLoad(before) == IF pc \in before THEN runs - 1 ELSE runs

C10_LoadOrder ==
    /\ model.bound => unique_values.bound
    /\ expected_features.bound => model.bound
    /\ label_encoder_y.bound => expected_features.bound
    /\ DataDefect =>
          /\ ~model.bound /\ reads[model_path] = 0
          /\ pc = "stopped" =>
                /\ Len(shown) = 1
                /\ shown[1].text \in {"Data file not found", "Error loading data",
                                      "Missing column in data file"}
    /\ (DataDefect \/ ~IsOk(model_path)) =>
          /\ ~expected_features.bound /\ reads[features_path] = 0
          /\ (pc = "stopped" /\ ~DataDefect) =>
                /\ Len(shown) = 1
                /\ shown[1].text \in {"Model file not found", "Error loading model file"}
    /\ FatalDefect =>
          /\ ~label_encoder_y.bound /\ reads[label_encoder_target_path] = 0
          /\ (pc = "stopped" /\ ~DataDefect /\ IsOk(model_path)) =>
                /\ Len(shown) = 1
                /\ shown[1].text \in {"Feature columns file not found",
                                      "Error loading feature columns"}

C10_Witness ==
    /\ files[data_path].state = "missing"
    /\ files[model_path].state = "missing"
    /\ pc = "stopped"
    /\ runs = 2
    /\ shown = <<Msg("error", "Data file not found", data_path)>>

====
